---- MODULE Spec2Model ----
(***************************************************************************)
(* hurl: a command-line HTTP header inspection client.                     *)
(*                                                                         *)
(* The model covers one process run: the options value handed to the       *)
(* network package, the request built from it (transport, redirect policy, *)
(* header lines, Akamai pragma, trace callbacks), the exchange driven by   *)
(* client.Do (hops, connection lifecycle events, redirects, failures), the *)
(* outcome returned to main, and main's output, body release and exit.     *)
(*                                                                         *)
(* Text is a sequence of one-character strings, so that splitting,         *)
(* trimming and header-key canonicalisation are computed character by      *)
(* character as the Go library does.                                       *)
(***************************************************************************)
EXTENDS Integers, Sequences, FiniteSets, TLC

VARIABLES
    opts,               \* network.RequestOptions handed to the fetch operation
    fetchOp,            \* which fetch operation of package network the program calls
    pc,                 \* position of the run
    insecureSkipVerify, \* tr.TLSClientConfig.InsecureSkipVerify
    checkRedirect,      \* client.CheckRedirect: "default" (nil) or "ErrUseLastResponse"
    traced,             \* a ClientTrace is attached to the request context
    reqHeader,          \* req.Header: canonical key -> sequence of values
    applied,            \* the (key, value) pairs passed to req.Header.Add, in call order
    hop,                \* redirects followed so far inside client.Do
    phase,              \* next connection lifecycle event of the current hop
    cert,               \* certificate the server presented on the current hop
    resp,               \* response client.Do returned
    doErr,              \* error client.Do returned
    dispatched,         \* number of client.Do calls made
    fetchResp,          \* response the fetch operation returned to main
    fetchErr,           \* error the fetch operation returned to main
    closers,            \* who called Close on the returned response body, in order
    stderr,             \* lines written to os.Stderr
    stdout,             \* lines written to os.Stdout
    exitCode,           \* process exit code, -1 while running
    cfgFile,            \* what the settings file is like when LoadConfig looks for it
    cfg,                \* the config.Config main holds
    cfgErr              \* error LoadConfig returned to main

vars == <<opts, fetchOp, pc, insecureSkipVerify, checkRedirect, traced, reqHeader,
          applied, hop, phase, cert, resp, doErr, dispatched, fetchResp, fetchErr,
          closers, stderr, stdout, exitCode, cfgFile, cfg, cfgErr>>

cfgVars   == <<cfgFile, cfg, cfgErr>>
buildVars == <<insecureSkipVerify, checkRedirect, traced, reqHeader, applied>>
netVars   == <<hop, phase, cert, resp, doErr, dispatched>>
mainVars  == <<fetchResp, fetchErr, stdout, exitCode>>

----------------------------------------------------------------------------
(* Bounds *)

\* Longest sequence of -H lines given on the command line.
MaxHeaders == 2

\* Requests one client.Do call may issue before the default redirect policy
\* stops the chain (net/http stops after 10; the model uses a smaller cap).
MaxRedirects == 3

----------------------------------------------------------------------------
(* Text helpers: strings, net/textproto *)

Whitespace == {" ", "\t"}

\* Bytes that may not appear in a header field name (not token characters).
NonTokenChars == {" ", "\t", ":", ";", ",", "/", "(", ")", "\""}

IsTokenChar(c) == c \notin NonTokenChars

CasePairs == { <<"a", "A">>, <<"g", "G">>, <<"m", "M">>, <<"p", "P">>,
               <<"r", "R">>, <<"x", "X">>, <<"u", "U">>, <<"e", "E">>,
               <<"t", "T">>, <<"h", "H">>, <<"d", "D">> }

ToUpperChar(c) == IF \E p \in CasePairs : p[1] = c
                  THEN (CHOOSE p \in CasePairs : p[1] = c)[2] ELSE c

ToLowerChar(c) == IF \E p \in CasePairs : p[2] = c
                  THEN (CHOOSE p \in CasePairs : p[2] = c)[1] ELSE c

ToLower(s) == [i \in 1..Len(s) |-> ToLowerChar(s[i])]

RECURSIVE TrimLeftSpace(_)
TrimLeftSpace(s) ==
    IF s # <<>> /\ Head(s) \in Whitespace THEN TrimLeftSpace(Tail(s)) ELSE s

RECURSIVE TrimRight(_, _)
TrimRight(s, cutset) ==
    IF s # <<>> /\ s[Len(s)] \in cutset
    THEN TrimRight(SubSeq(s, 1, Len(s) - 1), cutset) ELSE s

TrimSpace(s) == TrimRight(TrimLeftSpace(s), Whitespace)

\* Index of the first occurrence of c in s, 0 when absent.
IndexOf(s, c) ==
    IF \E i \in 1..Len(s) : s[i] = c
    THEN CHOOSE i \in 1..Len(s) : s[i] = c /\ \A j \in 1..(i - 1) : s[j] # c
    ELSE 0

\* Index of the last occurrence of c in s, 0 when absent.
LastIndexOf(s, c) ==
    IF \E i \in 1..Len(s) : s[i] = c
    THEN CHOOSE i \in 1..Len(s) : s[i] = c /\ \A j \in (i + 1)..Len(s) : s[j] # c
    ELSE 0

SplitAtLastColon(h) ==
    LET i == LastIndexOf(h, ":")
    IN  IF i = 0 THEN <<h>> ELSE <<SubSeq(h, 1, i - 1), SubSeq(h, i + 1, Len(h))>>

\* strings.SplitN(h, ":", 2)
SplitN2(h) ==
    LET i == IndexOf(h, ":")
    IN  IF i = 0 THEN <<h>> ELSE <<SubSeq(h, 1, i - 1), SubSeq(h, i + 1, Len(h))>>

\* textproto.CanonicalMIMEHeaderKey, which http.Header.Add and Set apply to
\* the key: a key holding a byte that is no token character is left as it
\* is; otherwise the first letter and every letter after '-' is upper-cased
\* and the rest lower-cased.
CanonicalMIMEHeaderKey(s) ==
    IF \E i \in 1..Len(s) : ~IsTokenChar(s[i])
    THEN s
    ELSE [i \in 1..Len(s) |->
            IF i = 1 \/ s[i - 1] = "-" THEN ToUpperChar(s[i]) ELSE ToLowerChar(s[i])]

\* http.Header.Add
HeaderAdd(hdr, key, value) ==
    LET k == CanonicalMIMEHeaderKey(key)
    IN  [x \in DOMAIN hdr \cup {k} |->
            IF x = k
            THEN (IF k \in DOMAIN hdr THEN hdr[k] ELSE <<>>) \o <<value>>
            ELSE hdr[x]]

\* http.Header.Set
HeaderSet(hdr, key, value) ==
    LET k == CanonicalMIMEHeaderKey(key)
    IN  [x \in DOMAIN hdr \cup {k} |-> IF x = k THEN <<value>> ELSE hdr[x]]

----------------------------------------------------------------------------
(* Fixed texts of the program *)

PragmaKey == <<"P", "r", "a", "g", "m", "a">>

UserAgentKey == <<"U", "s", "e", "r", "-", "A", "g", "e", "n", "t">>

\* The value is kept as one unit of text: nothing in the program looks inside it.
userAgent == <<"Mozilla/5.0 (Windows NT 10.0; Win64; x64) AppleWebKit/537.36 (KHTML, like Gecko) Chrome/135.0.0.0 Safari/537.36">>

akamaiPragmaValue == <<"akamai-x-get-request-id,akamai-x-get-cache-key,akamai-x-cache-on,akamai-x-cache-remote-on,akamai-x-get-true-cache-key,akamai-x-check-cacheable,akamai-x-get-extracted-values,akamai-x-feo-trace,x-akamai-logging-mode: verbose">>

EmptyHeader == [k \in {} |-> <<>>]

----------------------------------------------------------------------------
(* Header lines: the loop of Fetch over opts.CustomHeaders *)

\* One iteration of the loop: st is [hdr, applied], h the raw line, i its
\* position in opts.CustomHeaders.
ApplyLine(st, h, i) ==
    LET parts == SplitN2(h)
    IN  IF Len(parts) = 2
        THEN LET key   == TrimSpace(parts[1])
                 value == TrimSpace(parts[2])
             IN  IF key # <<>>
                 THEN [hdr     |-> HeaderAdd(st.hdr, key, value),
                       applied |-> Append(st.applied,
                                          [key |-> key, value |-> value, line |-> i])]
                 ELSE st
        ELSE IF Len(parts) = 1 /\ TrimSpace(parts[1]) # <<>>
             THEN LET key == TrimRight(TrimSpace(parts[1]), {";"})
                  IN  [hdr     |-> HeaderAdd(st.hdr, key, <<>>),
                       applied |-> Append(st.applied,
                                          [key |-> key, value |-> <<>>, line |-> i])]
             ELSE st

RECURSIVE ApplyHeadersFrom(_, _, _)
ApplyHeadersFrom(st, lines, i) ==
    IF i > Len(lines) THEN st
    ELSE ApplyHeadersFrom(ApplyLine(st, lines[i], i), lines, i + 1)

\* The request header after User-Agent is set and every custom line applied.
ApplyHeaders(lines) ==
    ApplyHeadersFrom([hdr     |-> HeaderSet(EmptyHeader, UserAgentKey, userAgent),
                      applied |-> <<>>], lines, 1)

AkamaiPragmaAdded(hdr, o) ==
    IF o.AddAkamaiPragma THEN HeaderAdd(hdr, PragmaKey, akamaiPragmaValue) ELSE hdr

\* if opts.AddAkamaiPragma { req.Header.Set("Pragma", akamaiPragmaValue) }
AkamaiPragma(hdr, o) ==
    IF o.AddAkamaiPragma THEN HeaderSet(hdr, PragmaKey, akamaiPragmaValue) ELSE hdr

----------------------------------------------------------------------------
(* Inputs *)

SeqsUpTo(S, n) == UNION { [1..k -> S] : k \in 0..n }

\* Pieces the -H lines of the header specification are put together from:
\* optional blanks around the key, a key, a separator, a value.
Blanks     == { <<>>, <<" ">> }
KeyTexts   == { <<>>, PragmaKey, <<"p", "R", "A", "G", "M", "A">>, <<"X", "-", "a">> }
Separators == { <<>>, <<":">>, <<";">> }
ValueTexts == { <<>>, <<"1">>, <<" ", "1", ":", "2", " ">> }

HeaderLines ==
    { b \o k \o b \o s \o v :
        b \in Blanks, k \in KeyTexts, s \in Separators, v \in ValueTexts }

\* The -H lines of whole runs.
SampleLines == { <<"p", "r", "a", "g", "m", "a", ":", "1">>,
                 <<"X", "-", "a", ":", " ", "1", ":", "2">>,
                 <<";">> }

Methods == { <<"G", "E", "T">>, <<"G", " ", "T">>, <<>> }

\* Targets: a plain one, a TLS one, and one url.Parse rejects.
URLs == { "http://h/", "https://h/", "http://h:x/" }

\* http.NewRequest: the method must be a token (empty means GET) and the
\* URL must parse.
ValidMethod(m) == \A i \in 1..Len(m) : IsTokenChar(m[i])

URLParses(u) == u # "http://h:x/"

Scheme(u) == IF u = "https://h/" THEN "https" ELSE "http"

NewRequestIgnoresURL(o) == ValidMethod(o.Method)

NewRequestOK(o) == ValidMethod(o.Method) /\ URLParses(o.URL)

DefaultOptions(u) ==
    [Method |-> <<"G", "E", "T">>, URL |-> u, CustomHeaders |-> <<>>,
     InsecureSkipTLS |-> FALSE, FollowRedirects |-> FALSE,
     AddAkamaiPragma |-> FALSE, Verbose |-> FALSE]

----------------------------------------------------------------------------
(* Responses, errors, output lines *)

NoResp == [status |-> 0, location |-> FALSE, hop |-> 0]

Statuses == {200, 302, 404, 500}

IsRedirect(r) == r.status >= 300 /\ r.status < 400 /\ r.location

\* What the server may answer on hop h: any status, a Location only on 3xx.
Responses(h) ==
    { [status |-> st, location |-> loc, hop |-> h] :
        st \in Statuses, loc \in BOOLEAN } \
    { [status |-> st, location |-> TRUE, hop |-> h] : st \in {200, 404, 500} }

Line(kind, h, ev, ok) == [kind |-> kind, hop |-> h, ev |-> ev, ok |-> ok]

\* A trace callback writes its line only when the ClientTrace is attached.
Traced(log, h, ev, ok) ==
    IF traced THEN Append(log, Line("trace", h, ev, ok)) ELSE log

----------------------------------------------------------------------------
(* Fetch: request construction, client.go lines 74-220 *)

InsecureAlways(o) == TRUE

\* tr.TLSClientConfig.InsecureSkipVerify = opts.InsecureSkipTLS
TLSInsecureSkipVerify(o) == o.InsecureSkipTLS

RedirectPolicyNeverSet(o) == "default"

\* if !opts.FollowRedirects { client.CheckRedirect = ... ErrUseLastResponse }
CheckRedirectPolicy(o) ==
    IF ~o.FollowRedirects THEN "ErrUseLastResponse" ELSE "default"

TraceNeverAttached(o) == FALSE

\* if opts.Verbose { trace = &httptrace.ClientTrace{...}; WithClientTrace }
TraceAttached(o) == o.Verbose

FetchBuild ==
    /\ pc = "start"
    /\ fetchOp = "Fetch"
    /\ insecureSkipVerify' = TLSInsecureSkipVerify(opts)
    /\ checkRedirect' = CheckRedirectPolicy(opts)
    /\ IF ~NewRequestOK(opts)
       THEN /\ fetchResp' = NoResp
            /\ fetchErr' = "construct"
            /\ pc' = "returned"
            /\ UNCHANGED <<traced, reqHeader, applied, stderr>>
       ELSE LET st == ApplyHeaders(opts.CustomHeaders)
            IN  /\ reqHeader' = AkamaiPragma(st.hdr, opts)
                /\ applied' = st.applied
                /\ traced' = TraceAttached(opts)
                /\ stderr' = IF opts.Verbose
                             THEN Append(stderr, Line("reqPreamble", 0, "", TRUE))
                             ELSE stderr
                /\ pc' = "dispatch"
                /\ UNCHANGED <<fetchResp, fetchErr>>
    /\ UNCHANGED <<opts, fetchOp, cfgVars, netVars, closers, stdout, exitCode>>

\* flagvar.HeaderFlags.Set: flag parsing appends each -H value in order.
HeaderFlagsSet ==
    /\ pc = "start"
    /\ Len(opts.CustomHeaders) < MaxHeaders
    /\ \E value \in HeaderLines :
         opts' = [opts EXCEPT !.CustomHeaders = Append(@, value)]
    /\ UNCHANGED <<fetchOp, cfgVars, pc, buildVars, netVars, fetchResp, fetchErr, closers,
                   stderr, stdout, exitCode>>

----------------------------------------------------------------------------
(* Configuration: config.LoadConfig and its use by main *)

\* config.DefaultConfig
DefaultConfig == [HeaderKeyColor |-> "yellow", HeaderValueColor |-> "cyan"]

\* What a settings file that decodes holds: one colour given, one left out.
FileConfig == [HeaderKeyColor |-> "red", HeaderValueColor |-> ""]

\* The settings file as LoadConfig finds it: no user config directory, no
\* file, a file that cannot be opened, one that cannot be decoded, a good one.
ConfigFiles == {"noUserDir", "absent", "openError", "decodeError", "valid"}

LoadConfigStrict(f) ==
    IF f \in {"openError", "decodeError"}
    THEN [cfg |-> DefaultConfig, err |-> f, warned |-> FALSE]
    ELSE IF f = "valid"
    THEN [cfg |-> [HeaderKeyColor   |-> IF FileConfig.HeaderKeyColor = ""
                                        THEN DefaultConfig.HeaderKeyColor
                                        ELSE FileConfig.HeaderKeyColor,
                   HeaderValueColor |-> IF FileConfig.HeaderValueColor = ""
                                        THEN DefaultConfig.HeaderValueColor
                                        ELSE FileConfig.HeaderValueColor],
          err |-> "nil", warned |-> FALSE]
    ELSE [cfg |-> DefaultConfig, err |-> "nil", warned |-> f = "noUserDir"]

\* config.LoadConfig: every failure writes a warning and returns the default
\* settings with a nil error; an absent file returns them silently; a file
\* that decodes has its empty colours replaced by the defaults.
LoadConfig(f) ==
    IF f \in {"noUserDir", "openError", "decodeError"}
    THEN [cfg |-> DefaultConfig, err |-> "nil", warned |-> TRUE]
    ELSE IF f = "absent"
    THEN [cfg |-> DefaultConfig, err |-> "nil", warned |-> FALSE]
    ELSE [cfg |-> [HeaderKeyColor   |-> IF FileConfig.HeaderKeyColor = ""
                                        THEN DefaultConfig.HeaderKeyColor
                                        ELSE FileConfig.HeaderKeyColor,
                   HeaderValueColor |-> IF FileConfig.HeaderValueColor = ""
                                        THEN DefaultConfig.HeaderValueColor
                                        ELSE FileConfig.HeaderValueColor],
          err |-> "nil", warned |-> FALSE]

\* main.go lines 55-63: EnsureConfigDir (a failure only warns), LoadConfig,
\* and os.Exit(1) when LoadConfig returns an error.
MainLoadConfig ==
    /\ pc = "config"
    /\ LET dirWarned == IF cfgFile = "noUserDir"
                        THEN Append(stderr, Line("configDirWarning", 0, "", FALSE))
                        ELSE stderr
           loaded    == LoadConfig(cfgFile)
           warned    == IF loaded.warned
                        THEN Append(dirWarned, Line("configWarning", 0, "", FALSE))
                        ELSE dirWarned
       IN  /\ cfg' = loaded.cfg
           /\ cfgErr' = loaded.err
           /\ IF loaded.err # "nil"
              THEN /\ stderr' = Append(warned, Line("configError", 0, "", FALSE))
                   /\ exitCode' = 1
                   /\ pc' = "exited"
              ELSE /\ stderr' = warned
                   /\ pc' = "start"
                   /\ UNCHANGED exitCode
    /\ UNCHANGED <<opts, fetchOp, cfgFile, buildVars, netVars, fetchResp, fetchErr,
                   closers, stdout>>

----------------------------------------------------------------------------
(* Initial states *)

InitRest ==
    /\ insecureSkipVerify = FALSE
    /\ checkRedirect = "default"
    /\ traced = FALSE
    /\ reqHeader = EmptyHeader
    /\ applied = <<>>
    /\ hop = 0
    /\ phase = "idle"
    /\ cert = "none"
    /\ resp = NoResp
    /\ doErr = "nil"
    /\ dispatched = 0
    /\ fetchResp = NoResp
    /\ fetchErr = "nil"
    /\ closers = <<>>
    /\ stderr = <<>>
    /\ stdout = <<>>
    /\ exitCode = -1

\* Whole runs: the options main built from the flags, for each program entry.
Init ==
    /\ fetchOp \in {"Fetch", "FetchHeaders", "FetchHeadersClosing"}
    /\ IF fetchOp = "Fetch"
       THEN opts \in [Method : Methods, URL : URLs,
                      CustomHeaders : SeqsUpTo(SampleLines, MaxHeaders),
                      InsecureSkipTLS : BOOLEAN, FollowRedirects : BOOLEAN,
                      AddAkamaiPragma : BOOLEAN, Verbose : BOOLEAN]
       ELSE opts \in { DefaultOptions(u) : u \in URLs }
    /\ pc = "config"
    /\ cfgFile \in ConfigFiles
    /\ cfg = DefaultConfig
    /\ cfgErr = "nil"
    /\ InitRest

\* Header handling alone: flag parsing collects the -H lines, Fetch builds
\* the request from them.
InitHeaders ==
    /\ fetchOp = "Fetch"
    /\ opts \in { [DefaultOptions("http://h/") EXCEPT !.AddAkamaiPragma = p] :
                    p \in BOOLEAN }
    /\ pc = "start"
    /\ cfgFile = "absent"
    /\ cfg = DefaultConfig
    /\ cfgErr = "nil"
    /\ InitRest

NextHeaders == HeaderFlagsSet \/ FetchBuild

SpecHeaders == InitHeaders /\ [][NextHeaders]_vars

----------------------------------------------------------------------------
(* The older fetch operations of package network *)

\* FetchHeaders up to the dispatch: a client with the default redirect
\* policy, a GET request for the URL, the User-Agent header.
FetchHeadersBuild ==
    /\ pc = "start"
    /\ fetchOp \in {"FetchHeaders", "FetchHeadersClosing"}
    /\ IF ~URLParses(opts.URL)
       THEN /\ fetchResp' = NoResp
            /\ fetchErr' = "construct"
            /\ pc' = "returned"
            /\ UNCHANGED reqHeader
       ELSE /\ reqHeader' = HeaderSet(EmptyHeader, UserAgentKey, userAgent)
            /\ pc' = "dispatch"
            /\ UNCHANGED <<fetchResp, fetchErr>>
    /\ UNCHANGED <<opts, fetchOp, cfgVars, insecureSkipVerify, checkRedirect, traced, applied,
                   netVars, closers, stderr, stdout, exitCode>>

----------------------------------------------------------------------------
(* client.Do: the exchange, hop by hop, with the callbacks of the ClientTrace *)

ClientDo ==
    /\ pc = "dispatch"
    /\ pc' = "inflight"
    /\ phase' = "GetConn"
    /\ dispatched' = dispatched + 1
    /\ UNCHANGED <<opts, fetchOp, cfgVars, buildVars, hop, cert, resp, doErr, fetchResp,
                   fetchErr, closers, stderr, stdout, exitCode>>

\* A lifecycle event that cannot fail: the callback reports it and the
\* connection attempt goes on.
Step(ev, next) ==
    /\ pc = "inflight"
    /\ phase = ev
    /\ stderr' = Traced(stderr, hop, ev, TRUE)
    /\ phase' = next
    /\ UNCHANGED <<opts, fetchOp, cfgVars, pc, buildVars, hop, cert, resp, doErr, dispatched,
                   fetchResp, fetchErr, closers, stdout, exitCode>>

\* A lifecycle event that reports success or an error; an error ends client.Do
\* without a response.
StepOrFail(ev, ok, next, err) ==
    /\ pc = "inflight"
    /\ phase = ev
    /\ stderr' = Traced(stderr, hop, ev, ok)
    /\ IF ok
       THEN /\ phase' = next
            /\ UNCHANGED <<pc, doErr>>
       ELSE /\ phase' = "idle"
            /\ pc' = "doReturned"
            /\ doErr' = err
    /\ UNCHANGED <<opts, fetchOp, cfgVars, buildVars, hop, cert, resp, dispatched,
                   fetchResp, fetchErr, closers, stdout, exitCode>>

GetConn == Step("GetConn", "DNSStart")

DNSStart == Step("DNSStart", "DNSDone")

DNSDone == \E ok \in BOOLEAN : StepOrFail("DNSDone", ok, "ConnectStart", "dns")

ConnectStart == Step("ConnectStart", "ConnectDone")

ConnectDone ==
    \E ok \in BOOLEAN :
        StepOrFail("ConnectDone", ok,
                   IF Scheme(opts.URL) = "https" THEN "TLSHandshakeStart" ELSE "GotConn",
                   "connect")

\* The server presents its certificate, one that verifies or one that does not.
TLSHandshakeStart ==
    /\ pc = "inflight"
    /\ phase = "TLSHandshakeStart"
    /\ \E c \in {"valid", "invalid"} : cert' = c
    /\ stderr' = Traced(stderr, hop, "TLSHandshakeStart", TRUE)
    /\ phase' = "TLSHandshakeDone"
    /\ UNCHANGED <<opts, fetchOp, cfgVars, pc, buildVars, hop, resp, doErr, dispatched,
                   fetchResp, fetchErr, closers, stdout, exitCode>>

\* The handshake fails on a certificate that does not verify unless the
\* transport skips verification.
TLSHandshakeDone ==
    StepOrFail("TLSHandshakeDone", cert = "valid" \/ insecureSkipVerify, "GotConn", "tls")

GotConn == Step("GotConn", "GotFirstResponseByte")

GotFirstResponseByte == Step("GotFirstResponseByte", "Response")

\* The fixed client timeout may end the exchange at any point.
Timeout ==
    /\ pc = "inflight"
    /\ pc' = "doReturned"
    /\ phase' = "idle"
    /\ doErr' = "timeout"
    /\ UNCHANGED <<opts, fetchOp, cfgVars, buildVars, hop, cert, resp, dispatched, fetchResp,
                   fetchErr, closers, stderr, stdout, exitCode>>

\* The response of the current hop arrives. A redirect goes through the
\* client's redirect policy: the CheckRedirect closure of Fetch returns
\* ErrUseLastResponse (the response is returned as it is, body open); the
\* default policy follows up to MaxRedirects requests and then fails, in
\* which case client.Do returns the last response, its body already closed,
\* together with the error.
Response ==
    /\ pc = "inflight"
    /\ phase = "Response"
    /\ \E r \in Responses(hop) :
         IF IsRedirect(r) /\ checkRedirect = "ErrUseLastResponse"
         THEN /\ stderr' = IF opts.Verbose
                           THEN Append(stderr, Line("ignoreRedirect", hop, "", TRUE))
                           ELSE stderr
              /\ resp' = r
              /\ pc' = "doReturned"
              /\ phase' = "idle"
              /\ UNCHANGED <<hop, cert, doErr, closers>>
         ELSE IF IsRedirect(r) /\ hop + 1 >= MaxRedirects
         THEN /\ resp' = r
              /\ closers' = Append(closers, "transport")
              /\ doErr' = "redirects"
              /\ pc' = "doReturned"
              /\ phase' = "idle"
              /\ UNCHANGED <<hop, cert, stderr>>
         ELSE IF IsRedirect(r)
         THEN /\ hop' = hop + 1
              /\ cert' = "none"
              /\ phase' = "GetConn"
              /\ UNCHANGED <<pc, resp, doErr, closers, stderr>>
         ELSE /\ resp' = r
              /\ pc' = "doReturned"
              /\ phase' = "idle"
              /\ UNCHANGED <<hop, cert, doErr, closers, stderr>>
    /\ UNCHANGED <<opts, fetchOp, cfgVars, buildVars, dispatched, fetchResp, fetchErr,
                   stdout, exitCode>>

----------------------------------------------------------------------------
(* The fetch operations after client.Do returned *)

FailureLineFirst(o, r, err, h) ==
    (IF err # "nil" /\ o.Verbose
     THEN <<Line("requestFailed", h, "", FALSE)>> ELSE <<>>)
    \o (IF o.Verbose /\ r # NoResp
        THEN <<Line("respPreamble", r.hop, "", TRUE)>> ELSE <<>>)

\* What Fetch writes after client.Do returned: in verbose mode the response
\* preamble if there is a response, then "* Request failed" if there is an
\* error.
FinishLines(o, r, err, h) ==
    (IF o.Verbose /\ r # NoResp
     THEN <<Line("respPreamble", r.hop, "", TRUE)>> ELSE <<>>)
    \o (IF err # "nil" /\ o.Verbose
        THEN <<Line("requestFailed", h, "", FALSE)>> ELSE <<>>)

RetryOnError(err) == IF err # "nil" THEN "dispatch" ELSE "returned"

\* Where Fetch goes once client.Do returned: it returns, error or not.
AfterDo(err) == "returned"

\* Fetch, client.go lines 224-255: the response preamble, the failure line,
\* the return.
FetchFinish ==
    /\ pc = "doReturned"
    /\ fetchOp = "Fetch"
    /\ stderr' = stderr \o FinishLines(opts, resp, doErr, hop)
    /\ fetchResp' = resp
    /\ fetchErr' = doErr
    /\ pc' = AfterDo(doErr)
    /\ UNCHANGED <<opts, fetchOp, cfgVars, buildVars, netVars, closers, stdout, exitCode>>

\* FetchHeaders of client.go: an error drops the response, otherwise the
\* response is returned with its body untouched.
FetchHeadersFinish ==
    /\ pc = "doReturned"
    /\ fetchOp = "FetchHeaders"
    /\ fetchResp' = IF doErr # "nil" THEN NoResp ELSE resp
    /\ fetchErr' = doErr
    /\ pc' = "returned"
    /\ UNCHANGED <<opts, fetchOp, cfgVars, buildVars, netVars, closers, stderr, stdout, exitCode>>

\* The FetchHeaders that defers resp.Body.Close(): the body is closed as the
\* function returns the response.
FetchHeadersClosingFinish ==
    /\ pc = "doReturned"
    /\ fetchOp = "FetchHeadersClosing"
    /\ fetchResp' = IF doErr # "nil" THEN NoResp ELSE resp
    /\ fetchErr' = doErr
    /\ closers' = IF doErr # "nil" THEN closers ELSE Append(closers, "executor")
    /\ pc' = "returned"
    /\ UNCHANGED <<opts, fetchOp, cfgVars, buildVars, netVars, stderr, stdout, exitCode>>

----------------------------------------------------------------------------
(* main after the fetch operation returned *)

ExitCodeByStatus(err, r) == IF err # "nil" THEN 1 ELSE IF r.status >= 400 THEN 2 ELSE 0

\* os.Exit(1) on an error, a plain return otherwise, whatever the status.
ExitCodeOf(err, r) == IF err # "nil" THEN 1 ELSE 0

MainOutputAlways(o, r) ==
    <<Line("status", r.hop, "", TRUE), Line("headers", r.hop, "", TRUE)>>

\* The status line and the header listing main prints, unless verbose.
MainOutput(o, r) ==
    IF ~o.Verbose
    THEN <<Line("status", r.hop, "", TRUE), Line("headers", r.hop, "", TRUE)>>
    ELSE <<>>

\* main.go lines 76-103. The deferred Close runs when main returns; os.Exit
\* ends the process without running deferred calls.
MainAfterFetch ==
    /\ pc = "returned"
    /\ fetchOp = "Fetch"
    /\ IF fetchErr # "nil"
       THEN /\ stderr' = IF ~opts.Verbose
                         THEN Append(stderr, Line("mainError", 0, "", FALSE))
                         ELSE stderr
            /\ UNCHANGED <<stdout, closers>>
       ELSE /\ stdout' = stdout \o MainOutput(opts, fetchResp)
            /\ closers' = IF fetchResp # NoResp THEN Append(closers, "main") ELSE closers
            /\ UNCHANGED stderr
    /\ exitCode' = ExitCodeOf(fetchErr, fetchResp)
    /\ pc' = "exited"
    /\ UNCHANGED <<opts, fetchOp, cfgVars, buildVars, netVars, fetchResp, fetchErr>>

\* The main that calls FetchHeaders: an error exits before the Close is
\* deferred; otherwise the status line and headers are printed and the
\* deferred Close runs on return.
MainAfterFetchHeaders ==
    /\ pc = "returned"
    /\ fetchOp \in {"FetchHeaders", "FetchHeadersClosing"}
    /\ IF fetchErr # "nil"
       THEN /\ stderr' = Append(stderr, Line("mainError", 0, "", FALSE))
            /\ exitCode' = 1
            /\ UNCHANGED <<stdout, closers>>
       ELSE /\ stdout' = stdout \o <<Line("status", fetchResp.hop, "", TRUE),
                                     Line("headers", fetchResp.hop, "", TRUE)>>
            /\ closers' = Append(closers, "main")
            /\ exitCode' = 0
            /\ UNCHANGED stderr
    /\ pc' = "exited"
    /\ UNCHANGED <<opts, fetchOp, cfgVars, buildVars, netVars, fetchResp, fetchErr>>

----------------------------------------------------------------------------
(* Whole runs *)

Next ==
    \/ MainLoadConfig
    \/ FetchBuild
    \/ FetchHeadersBuild
    \/ ClientDo
    \/ GetConn
    \/ DNSStart
    \/ DNSDone
    \/ ConnectStart
    \/ ConnectDone
    \/ TLSHandshakeStart
    \/ TLSHandshakeDone
    \/ GotConn
    \/ GotFirstResponseByte
    \/ Timeout
    \/ Response
    \/ FetchFinish
    \/ FetchHeadersFinish
    \/ FetchHeadersClosingFinish
    \/ MainAfterFetch
    \/ MainAfterFetchHeaders

Spec == Init /\ [][Next]_vars

----------------------------------------------------------------------------
(* Properties of header handling, checked under SpecHeaders *)

AllBlank(s) == \A i \in 1..Len(s) : s[i] \in Whitespace

NoOuterBlank(t) == t = <<>> \/ (t[1] \notin Whitespace /\ t[Len(t)] \notin Whitespace)

\* t is raw without its leading and trailing whitespace.
IsTrimOf(t, raw) ==
    /\ NoOuterBlank(t)
    /\ \E a \in 0..Len(raw) :
         /\ a + Len(t) <= Len(raw)
         /\ AllBlank(SubSeq(raw, 1, a))
         /\ SubSeq(raw, a + 1, a + Len(t)) = t
         /\ AllBlank(SubSeq(raw, a + Len(t) + 1, Len(raw)))

HasColon(h) == \E i \in 1..Len(h) : h[i] = ":"

FirstColonAt(h, i) == h[i] = ":" /\ \A j \in 1..(i - 1) : h[j] # ":"

SameName(a, b) == ToLower(a) = ToLower(b)

\* The values the applied entries give to the header key k, in call order.
ValuesFor(k) ==
    LET hits == SelectSeq(applied, LAMBDA e : CanonicalMIMEHeaderKey(e.key) = k)
    IN  [j \in 1..Len(hits) |-> hits[j].value]

\* C2: with AddAkamaiPragma set, whatever -H lines were given (Pragma lines in
\* any letter case included), the built request has exactly one Pragma value,
\* the fixed Akamai constant, and no user-supplied Pragma value is left.
C2_PragmaIsAkamaiConstant ==
    (pc = "dispatch" /\ opts.AddAkamaiPragma) =>
        /\ PragmaKey \in DOMAIN reqHeader
        /\ reqHeader[PragmaKey] = <<akamaiPragmaValue>>
        /\ \A k \in DOMAIN reqHeader : SameName(k, PragmaKey) => k = PragmaKey

\* C2 witness: the request was built with the pragma flag from two Pragma
\* lines written in different letter case, one carrying a value.
C2_Witness ==
    /\ pc = "dispatch"
    /\ opts.AddAkamaiPragma
    /\ \E i, j \in DOMAIN applied :
         /\ applied[i].key # applied[j].key
         /\ SameName(applied[i].key, PragmaKey)
         /\ SameName(applied[j].key, PragmaKey)
         /\ applied[i].value # <<>>

\* C7 (as claimed): every entry applied from the custom header lines has a key
\* that is non-empty and has no leading or trailing whitespace.
C7_AppliedKeysNonEmptyTrimmed ==
    \A j \in DOMAIN applied :
        applied[j].key # <<>> /\ NoOuterBlank(applied[j].key)

\* C8: an entry applied from a line holding ':' has as key the text before the
\* first ':' and as value all the text after it, each without its outer
\* whitespace; every such line with a non-blank key is applied, entries are
\* applied in input order, and a key given several times keeps all its values
\* in that order (the Pragma key aside when the Akamai pragma replaces it).
C8_SplitAtFirstColonInOrder ==
    pc = "dispatch" =>
        LET lines == opts.CustomHeaders
        IN  /\ \A j \in DOMAIN applied :
                 LET e == applied[j]
                     h == lines[e.line]
                 IN  HasColon(h) =>
                       \E i \in 1..Len(h) :
                          /\ FirstColonAt(h, i)
                          /\ IsTrimOf(e.key, SubSeq(h, 1, i - 1))
                          /\ IsTrimOf(e.value, SubSeq(h, i + 1, Len(h)))
            /\ \A i \in DOMAIN lines :
                 (\E c \in 1..Len(lines[i]) :
                     FirstColonAt(lines[i], c) /\ ~AllBlank(SubSeq(lines[i], 1, c - 1)))
                   => Cardinality({j \in DOMAIN applied : applied[j].line = i}) = 1
            /\ \A j, k \in DOMAIN applied : j < k => applied[j].line < applied[k].line
            /\ \A k \in DOMAIN reqHeader :
                 (k # PragmaKey \/ ~opts.AddAkamaiPragma) =>
                    reqHeader[k] =
                       (IF k = UserAgentKey THEN <<userAgent>> ELSE <<>>) \o ValuesFor(k)

\* C8 witness: two lines with ':' naming the same header in different letter
\* case were applied, the second with a value that itself holds a ':'.
C8_Witness ==
    /\ pc = "dispatch"
    /\ Len(applied) = 2
    /\ HasColon(opts.CustomHeaders[1])
    /\ applied[1].key # applied[2].key
    /\ SameName(applied[1].key, applied[2].key)
    /\ applied[1].value = <<"1">>
    /\ applied[2].value = <<"1", ":", "2">>

----------------------------------------------------------------------------
(* Properties of whole runs, checked under Spec *)

Returned == pc \in {"returned", "exited"}

\* The fetch operation has been called.
FetchEntered == pc \notin {"config", "start"}

ClosedBy(who) == \E i \in DOMAIN closers : closers[i] = who

\* The lifecycle order of one connection attempt.
EventOrder == <<"GetConn", "DNSStart", "DNSDone", "ConnectStart", "ConnectDone",
                "TLSHandshakeStart", "TLSHandshakeDone", "GotConn",
                "GotFirstResponseByte">>

Rank(ev) == CHOOSE i \in DOMAIN EventOrder : EventOrder[i] = ev

TraceLines == SelectSeq(stderr, LAMBDA l : l.kind = "trace")

\* C1: with FollowRedirects off, Fetch never goes on to a further hop, and a
\* redirect answered to the first request is itself the returned response,
\* with a nil error.
C1_RedirectNotFollowed ==
    (fetchOp = "Fetch" /\ ~opts.FollowRedirects) =>
        /\ hop = 0
        /\ dispatched <= 1
        /\ (Returned /\ IsRedirect(resp)) =>
              (fetchResp = resp /\ fetchResp.hop = 0 /\ fetchErr = "nil")

\* C1 witness: Fetch returned a 302 with a Location, FollowRedirects off.
C1_Witness ==
    /\ pc = "returned"
    /\ fetchOp = "Fetch"
    /\ ~opts.FollowRedirects
    /\ fetchResp.status = 302
    /\ fetchResp.location
    /\ fetchErr = "nil"

\* C3 (as claimed): a fetch operation of package network that returns a
\* response has not itself closed the response body.
C3_ExecutorNeverClosesBody ==
    (Returned /\ fetchResp # NoResp) => ~ClosedBy("executor")

\* C4 (as claimed): when Fetch returned a response to main, main has executed
\* Close on its body by the time the process has ended.
C4_BodyClosedBeforeExit ==
    (pc = "exited" /\ fetchOp = "Fetch" /\ fetchResp # NoResp) => ClosedBy("main")

\* C5: a response client.Do delivered without an error is returned by Fetch
\* with a nil error and the process exits 0, whatever its status code.
C5_StatusDoesNotDecide ==
    (fetchOp = "Fetch" /\ resp # NoResp /\ doErr = "nil") =>
        /\ Returned => (fetchResp = resp /\ fetchErr = "nil")
        /\ pc = "exited" => exitCode = 0

\* C5 witness: the process ended with code 0 on a response of status >= 400.
C5_Witness ==
    /\ pc = "exited"
    /\ fetchOp = "Fetch"
    /\ fetchResp.status >= 400
    /\ fetchErr = "nil"
    /\ exitCode = 0

\* The lines Fetch itself writes (main and LoadConfig write the others).
FetchLineKinds == {"reqPreamble", "trace", "ignoreRedirect", "respPreamble",
                   "requestFailed"}

\* C6: when the method is malformed or the URL does not parse, Fetch returns
\* no response and a construction error, client.Do is never called, no trace
\* is attached, and Fetch writes nothing (no line on stderr is one of Fetch's).
C6_ConstructionFailure ==
    (fetchOp = "Fetch" /\ FetchEntered
       /\ (~ValidMethod(opts.Method) \/ ~URLParses(opts.URL))) =>
        /\ Returned
        /\ fetchResp = NoResp
        /\ fetchErr = "construct"
        /\ dispatched = 0
        /\ phase = "idle"
        /\ ~traced
        /\ \A i \in DOMAIN stderr : stderr[i].kind \notin FetchLineKinds

\* C6 witness: Fetch returned the construction error for a URL that does not
\* parse, in verbose mode with the pragma flag and a header line given.
C6_Witness ==
    /\ pc = "returned"
    /\ fetchOp = "Fetch"
    /\ ~URLParses(opts.URL)
    /\ ValidMethod(opts.Method)
    /\ opts.Verbose
    /\ opts.AddAkamaiPragma
    /\ opts.CustomHeaders # <<>>
    /\ fetchErr = "construct"

\* C9: the transport of Fetch skips certificate verification exactly when
\* InsecureSkipTLS is set, whatever the other options: a handshake fails on a
\* certificate that does not verify only with the option off, and passes such
\* a certificate only with the option on.
C9_VerificationOffIffInsecure ==
    fetchOp = "Fetch" =>
        /\ FetchEntered => (insecureSkipVerify <=> opts.InsecureSkipTLS)
        /\ doErr = "tls" => (cert = "invalid" /\ ~opts.InsecureSkipTLS)
        /\ (cert = "invalid" /\ (phase \in {"GotConn", "GotFirstResponseByte", "Response"}
                                 \/ resp # NoResp))
              => opts.InsecureSkipTLS

\* C9 witness: with InsecureSkipTLS set (and verbose, following redirects),
\* Fetch returned a response from a server whose certificate does not verify.
C9_Witness ==
    /\ pc = "returned"
    /\ fetchOp = "Fetch"
    /\ opts.InsecureSkipTLS
    /\ opts.Verbose
    /\ opts.FollowRedirects
    /\ cert = "invalid"
    /\ fetchResp.status = 200

\* C10: with FollowRedirects on, after one redirect followed Fetch returns
\* the response of the second exchange; in verbose mode the trace callbacks
\* have fired for both hops, every event of the first hop before every event
\* of the second, each hop's events in lifecycle order.
C10_RedirectFollowedAndTraced ==
    (fetchOp = "Fetch" /\ opts.FollowRedirects /\ Returned
       /\ fetchErr = "nil" /\ hop = 1) =>
        /\ fetchResp # NoResp
        /\ fetchResp.hop = 1
        /\ opts.Verbose =>
             /\ \A h \in 0..1 : \A ev \in {"GetConn", "GotConn", "GotFirstResponseByte"} :
                  \E i \in DOMAIN TraceLines :
                     TraceLines[i].hop = h /\ TraceLines[i].ev = ev
             /\ \A i, j \in DOMAIN TraceLines :
                  i < j =>
                     \/ TraceLines[i].hop < TraceLines[j].hop
                     \/ /\ TraceLines[i].hop = TraceLines[j].hop
                        /\ Rank(TraceLines[i].ev) < Rank(TraceLines[j].ev)

\* C10 witness: a verbose Fetch that followed one redirect returned a 200.
C10_Witness ==
    /\ pc = "returned"
    /\ fetchOp = "Fetch"
    /\ opts.FollowRedirects
    /\ opts.Verbose
    /\ hop = 1
    /\ fetchResp.status = 200
    /\ fetchErr = "nil"

----------------------------------------------------------------------------
(* Configuration, output and order of whole runs, checked under Spec *)

ConfigLoadFailed == cfgFile \in {"openError", "decodeError"}

HasLine(log, kind) == \E i \in DOMAIN log : log[i].kind = kind

CountLines(log, kind) == Cardinality({i \in DOMAIN log : log[i].kind = kind})

\* C11 (as claimed): a run whose settings file could not be opened (for
\* another reason than absence) or decoded ends with exit code 1.
C11_ConfigFailureExitsOne ==
    (pc = "exited" /\ ConfigLoadFailed) => exitCode = 1

\* C11 (amended): on such a failure LoadConfig writes a warning and returns
\* the default settings with a nil error; main goes on to the request, and
\* the exit code is 1 exactly when the request itself failed, 0 otherwise.
C11_ConfigFailureFallsBack ==
    (ConfigLoadFailed /\ pc # "config") =>
        /\ cfgErr = "nil"
        /\ cfg = DefaultConfig
        /\ CountLines(stderr, "configWarning") = 1
        /\ ~HasLine(stderr, "configError")
        /\ pc = "exited" =>
             /\ fetchErr # "nil" \/ fetchResp # NoResp
             /\ exitCode = (IF fetchErr # "nil" THEN 1 ELSE 0)

\* C11 witness: the settings file could not be decoded and the process ended
\* with code 0 after a completed exchange.
C11_Witness ==
    /\ pc = "exited"
    /\ cfgFile = "decodeError"
    /\ fetchOp = "Fetch"
    /\ fetchResp.status = 200
    /\ exitCode = 0

\* C12 (as claimed): a run whose request failed (at construction or in the
\* exchange) ends with code 1 after an error line was written to stderr:
\* exactly one final line from main when not verbose, a line naming the
\* failure when verbose.
C12_FailureWritesErrorLine ==
    (pc = "exited" /\ fetchOp = "Fetch" /\ fetchErr # "nil") =>
        /\ exitCode = 1
        /\ IF opts.Verbose
           THEN HasLine(stderr, "requestFailed") \/ HasLine(stderr, "mainError")
           ELSE CountLines(stderr, "mainError") = 1

\* C13: in verbose mode nothing is ever written to standard output; without
\* it Fetch attaches no trace and writes nothing, whether the run succeeds,
\* stops at a redirect or fails.
C13_StreamsSeparatedByMode ==
    fetchOp = "Fetch" =>
        /\ opts.Verbose => stdout = <<>>
        /\ ~opts.Verbose =>
             /\ ~traced
             /\ \A i \in DOMAIN stderr : stderr[i].kind \notin FetchLineKinds

\* C13 witness: a verbose run ended after a completed exchange, its response
\* preamble on stderr.
C13_Witness ==
    /\ pc = "exited"
    /\ fetchOp = "Fetch"
    /\ opts.Verbose
    /\ fetchErr = "nil"
    /\ fetchResp.status = 200
    /\ HasLine(stderr, "respPreamble")

\* The moves of one run of Fetch: building ("start"), dispatched
\* ("dispatch", "inflight", "doReturned"), returned.
FetchMoves ==
    { <<"config", "start">>, <<"config", "exited">>,
      <<"start", "dispatch">>, <<"start", "returned">>,
      <<"dispatch", "inflight">>, <<"inflight", "inflight">>,
      <<"inflight", "doReturned">>, <<"doReturned", "returned">>,
      <<"returned", "exited">> }

\* C14: a run of Fetch goes from building to dispatched to its return, or
\* from building straight to a failed return; client.Do is called at most
\* once and never again after a failure; once Fetch has returned it takes no
\* further step and its outcome (a response, or an error) stays as returned.
C14_OneDispatchOneOutcome ==
    [][ fetchOp = "Fetch" =>
          /\ <<pc, pc'>> \in FetchMoves
          /\ dispatched' <= 1
          /\ (pc = "start" /\ pc' = "returned") => (fetchErr' # "nil" /\ dispatched' = 0)
          /\ pc' = "returned" => (fetchErr' = "nil" => fetchResp' # NoResp)
          /\ Returned =>
               /\ pc' \in {"returned", "exited"}
               /\ fetchResp' = fetchResp
               /\ fetchErr' = fetchErr
               /\ UNCHANGED <<buildVars, netVars>>
               /\ \A i \in DOMAIN stderr' :
                    i > Len(stderr) => stderr'[i].kind \notin FetchLineKinds ]_vars

\* C14 witness: Fetch returned a failure of the one client.Do call it made.
C14_Witness ==
    /\ pc = "returned"
    /\ fetchOp = "Fetch"
    /\ dispatched = 1
    /\ fetchErr = "dns"
    /\ fetchResp = NoResp

\* C15: in verbose mode the request preamble is written once, before the
\* dispatch and so before every trace line; the response preamble of a
\* response obtained comes after every trace line and before the
\* "* Request failed" line.
C15_VerboseOutputOrdered ==
    (fetchOp = "Fetch" /\ opts.Verbose) =>
        /\ pc = "dispatch" => (dispatched = 0 /\ CountLines(stderr, "reqPreamble") = 1)
        /\ \A i \in DOMAIN stderr :
             stderr[i].kind = "trace" =>
                \E j \in 1..(i - 1) : stderr[j].kind = "reqPreamble"
        /\ \A i, j \in DOMAIN stderr :
             (stderr[i].kind = "respPreamble" /\ stderr[j].kind = "trace") => j < i
        /\ \A i, j \in DOMAIN stderr :
             (stderr[i].kind = "respPreamble" /\ stderr[j].kind = "requestFailed") => i < j
        /\ (Returned /\ fetchResp # NoResp) => CountLines(stderr, "respPreamble") = 1

\* C15 witness: a verbose Fetch returned a response together with an error,
\* having written trace lines, the response preamble and the failure line.
C15_Witness ==
    /\ pc = "returned"
    /\ fetchOp = "Fetch"
    /\ opts.Verbose
    /\ fetchResp # NoResp
    /\ fetchErr # "nil"
    /\ HasLine(stderr, "trace")
    /\ HasLine(stderr, "respPreamble")
    /\ HasLine(stderr, "requestFailed")

====
